---- MODULE Spec2Model ----
(***************************************************************************)
(* pyfolio/bayesian.py: the BayesianModel lifecycle (build once, rebind    *)
(* shared variables, run inference), the run_model / plot_bayes_cone       *)
(* drivers over the four module-level model instances, and the cone        *)
(* analytics (compute_bayes_cone, compute_consistency_score).              *)
(*                                                                         *)
(* Arrays of returns are abstract values ("a", "b", ...): np.asarray and   *)
(* set_value keep an array's contents, and nothing in this file looks      *)
(* inside an array before the sampler does.  Each source line of run is    *)
(* one step of a call, so that what a call has bound when inference        *)
(* starts, and what two interleaved calls do to each other, is visible.    *)
(***************************************************************************)
EXTENDS Integers, Sequences, FiniteSets, TLC

VARIABLES
    cached_model,   \* instance -> None or the model create_model returned
    shared_vars,    \* instance -> the dict of theano shared variables
    created,        \* instance -> how many times create_model was entered
    call,           \* thread -> the call it is executing
    nCalls,         \* calls started so far
    preds,          \* cone analytics: the S x T matrix of simulated returns
    starting_value, \* cone analytics: compute_bayes_cone's starting_value
    returns_test,   \* cone analytics: the realized out-of-sample returns
    perc,           \* cone analytics: compute_bayes_cone's result
    score           \* cone analytics: compute_consistency_score's result

vars == <<cached_model, shared_vars, created, call, nCalls,
          preds, starting_value, returns_test, perc, score>>

lifecycleVars == <<cached_model, shared_vars, created, call, nCalls>>
coneVars == <<preds, starting_value, returns_test, perc, score>>

(***************************************************************************)
(* Bounds.                                                                 *)
(***************************************************************************)
MaxCalls == 2

\* The simulated matrix has up to MaxPaths rows (S) and MaxSteps columns (T).
MaxPaths == 3
MaxSteps == 2

None == "None"

\* A series is a tuple of the arrays it is made of; None, passed as data, is
\* the empty tuple.
NoData == <<>>
Series(x) == IF x = None THEN NoData ELSE <<x>>

\* "No model cached" and "no trace yet".
NoModel == [id |-> 0, attached |-> FALSE, frozen |-> [n \in {} |-> NoData]]
NoTrace == [draws |-> 0, model |-> 0]

\* Two concurrent callers; the sequential specification uses the first only.
Threads == {1, 2}

(***************************************************************************)
(* The module-level instances and their create_model signatures.           *)
(***************************************************************************)
Instances == {"returns_normal", "returns_t", "best", "returns_alpha_beta"}

\* The keyword parameters of each class's create_model.
Keywords(inst) ==
    CASE inst = "returns_normal"     -> {"data"}
      [] inst = "returns_t"          -> {"data"}
      [] inst = "best"               -> {"y1", "y2"}
      [] inst = "returns_alpha_beta" -> {"data", "bmark"}

\* BayesianModel.samples, the class attribute _inference draws.
samples == 2000

\* The default of run_model's and plot_bayes_cone's samples parameter.
default_samples == 500

\* Return series a caller may pass.
TrainSeries == {"a", "b"}
TestSeries == {"c"}
BmarkSeries == {"m"}

\* A keyword name no create_model accepts.
OtherName == "samples"

\* pd.Series(returns_train, period): the training returns reindexed over the
\* training and test dates, the test dates holding NaN.
Reindexed(train, test) == <<train, test>>

\* The empty dict.
EmptyDict == [n \in {} |-> NoData]

\* Every dict of keyword inputs a caller may hand to run on `inst`: any subset
\* of the class's keywords bound to a series, with or without one name
\* create_model does not accept.
RunInputs(inst) ==
    LET Arrays == { Series(x) : x \in TrainSeries } IN
    UNION { [S -> Arrays] : S \in SUBSET Keywords(inst) }
    \cup
    UNION { { [n \in S \cup {OtherName} |-> IF n = OtherName THEN <<default_samples>> ELSE f[n]] :
                f \in [S -> Arrays] } : S \in SUBSET Keywords(inst) }

(***************************************************************************)
(* Per-instance state.  __init__ gives every instance attributes of its    *)
(* own.                                                                    *)
(***************************************************************************)
\* Variant: the attributes live on the class, one store for all instances.
StoreOfClass(inst) == "returns_t"

\* The attributes run reads and writes are those of the instance itself.
StoreOf(inst) == inst

\* The arrays the cached model's graph reads: those of the shared variables
\* it was built over.  They are the instance's current shared variables
\* (the model is attached) unless a later _create_shared_vars has replaced
\* the dict, in which case the model keeps the variables, and the values,
\* it closed over.
ModelData(inst) ==
    LET m == cached_model[StoreOf(inst)]
    IN  IF m = NoModel THEN EmptyDict
        ELSE IF m.attached THEN shared_vars[StoreOf(inst)] ELSE m.frozen

\* Variant: every run rebuilds.
NeedsBuildAlways(inst) == TRUE

\* line 51: the model is built only when none is cached.

NeedsBuild(inst) == cached_model[StoreOf(inst)] = NoModel

\* Variant: the shared variable keeps its old value.
SetValueStale(vals, name, data) == vals

\* line 55: shared_vars[name].set_value(data).

SetValue(vals, name, data) == [vals EXCEPT ![name] = data]

\* What create_model(**shared_vars) does: "TypeError" for a keyword the
\* signature does not have; "NameError" in ReturnsAlphaBeta (data_no_missing
\* is defined nowhere); an error from theano when an observed input is None,
\* supplied or by default; otherwise the model.
CreateOutcome(inst, vals) ==
    IF ~(DOMAIN vals \subseteq Keywords(inst)) THEN "TypeError"
    ELSE IF inst = "returns_alpha_beta" THEN "NameError"
    ELSE IF \E k \in Keywords(inst) : k \notin DOMAIN vals \/ vals[k] = NoData
         THEN "AsTensorError"
    ELSE "ok"

(***************************************************************************)
(* Calls.                                                                  *)
(***************************************************************************)
NoArgs == [train |-> None, test |-> None, bmark |-> None]

\* What a call hands back: plot_bayes_cone a score and a trace, run and
\* run_model a trace.
NoResult == [score |-> None, trace |-> NoTrace]

Idle ==
    [pc |-> "idle", entry |-> None, model |-> None, inst |-> None,
     args |-> NoArgs, inputs |-> EmptyDict, todo |-> {}, samples |-> 0,
     given |-> FALSE, built |-> FALSE,
     trace |-> NoTrace, score |-> None, outcome |-> None, result |-> NoResult]

\* Variant: an unknown name falls through to the Student-T model.
RunModelTargetFallThrough(model) ==
    CASE model = "alpha_beta" -> "returns_alpha_beta"
      [] model = "t"          -> "returns_t"
      [] model = "normal"     -> "returns_normal"
      [] model = "best"       -> "best"
      [] OTHER                -> "returns_t"

\* run_model's dispatch (lines 394-405): the instance a model name selects.
RunModelTarget(model) ==
    CASE model = "alpha_beta" -> "returns_alpha_beta"
      [] model = "t"          -> "returns_t"
      [] model = "normal"     -> "returns_normal"
      [] model = "best"       -> "best"
      [] OTHER                -> None

\* The keyword inputs run_model hands to run (lines 388-401).
RunModelInputs(model, args) ==
    LET rets == IF args.test # None THEN Reindexed(args.train, args.test)
                ELSE Series(args.train)
    IN  CASE model = "alpha_beta" -> [n \in {"data", "bmark"} |->
                                        IF n = "data" THEN Series(args.train) ELSE Series(args.bmark)]
          [] model = "best"       -> [n \in {"y1", "y2"} |->
                                        IF n = "y1" THEN Series(args.train) ELSE Series(args.test)]
          [] OTHER                -> [n \in {"data"} |-> rets]

ModelNames == {"alpha_beta", "t", "normal", "best", "foo"}

\* The call is over: it raised `out`, or returned `result`.  What it was
\* asked and what it had computed by then stay on record.
Finished(c, out, result) ==
    [Idle EXCEPT !.pc = "done", !.entry = call[c].entry, !.inst = call[c].inst,
                 !.samples = call[c].samples, !.given = call[c].given,
                 !.score = call[c].score, !.trace = call[c].trace,
                 !.outcome = out, !.result = result]

Fail(c, exc) == call' = [call EXCEPT ![c] = Finished(c, exc, NoResult)]

\* A caller starts BayesianModel.run(**inputs) on an instance.
CallRun(c) ==
    /\ \E inst \in Instances : \E inputs \in RunInputs(inst) :
          call' = [call EXCEPT ![c] = [Idle EXCEPT !.pc = "run", !.entry = "run",
                      !.inst = inst, !.inputs = inputs]]
    /\ nCalls' = nCalls + 1
    /\ UNCHANGED <<cached_model, shared_vars, created, coneVars>>

\* A caller starts run_model(model, returns_train, returns_test, bmark, samples).
CallRunModel(c) ==
    /\ \E model \in ModelNames, train \in TrainSeries,
          test \in TestSeries \cup {None}, bmark \in BmarkSeries \cup {None},
          n \in {default_samples, samples} :
          call' = [call EXCEPT ![c] = [Idle EXCEPT !.pc = "run_model",
                      !.entry = "run_model", !.model = model,
                      !.args = [train |-> train, test |-> test, bmark |-> bmark],
                      !.samples = n]]
    /\ nCalls' = nCalls + 1
    /\ UNCHANGED <<cached_model, shared_vars, created, coneVars>>

\* A trace of an earlier run, handed to plot_bayes_cone.
EarlierTrace == [draws |-> samples, model |-> 1]

\* A caller starts plot_bayes_cone(returns_train, returns_test, bmark, model,
\* trace, ..., samples).
CallPlotBayesCone(c) ==
    /\ \E model \in ModelNames, train \in TrainSeries, test \in TestSeries,
          bmark \in BmarkSeries \cup {None}, n \in {default_samples, samples},
          trace \in {NoTrace, EarlierTrace} :
          call' = [call EXCEPT ![c] = [Idle EXCEPT !.pc = "plot_bayes_cone",
                      !.entry = "plot_bayes_cone", !.model = model,
                      !.args = [train |-> train, test |-> test, bmark |-> bmark],
                      !.samples = n, !.trace = trace, !.given = (trace # NoTrace)]]
    /\ nCalls' = nCalls + 1
    /\ UNCHANGED <<cached_model, shared_vars, created, coneVars>>

\* plot_bayes_cone, lines 450-452: run the model unless a trace was passed.
plot_bayes_cone(c) ==
    /\ call[c].pc = "plot_bayes_cone"
    /\ call' = [call EXCEPT ![c].pc = IF call[c].trace = NoTrace
                                       THEN "run_model" ELSE "score"]
    /\ UNCHANGED <<cached_model, shared_vars, created, nCalls, coneVars>>

\* plot_bayes_cone, line 454: score = compute_consistency_score(...).
consistency_score(c) ==
    /\ call[c].pc = "score"
    /\ call' = [call EXCEPT ![c].pc = "_plot_bayes_cone", ![c].score = "score"]
    /\ UNCHANGED <<cached_model, shared_vars, created, nCalls, coneVars>>

\* line 454 raises: the trace has no 'returns_missing' (BEST names its
\* observed variables group1 and group2).
consistency_score_raises(c) ==
    /\ call[c].pc = "score"
    /\ Fail(c, "KeyError")
    /\ UNCHANGED <<cached_model, shared_vars, created, nCalls, coneVars>>

\* The rendering calls in order: _plot_bayes_cone (lines 456-461), ax.text
\* (462-470), ax.set_ylabel (472); then return score, trace (473).
AfterRender(pc) ==
    CASE pc = "_plot_bayes_cone" -> "ax.text"
      [] pc = "ax.text"          -> "ax.set_ylabel"
      [] pc = "ax.set_ylabel"    -> "done"

RenderPcs == {"_plot_bayes_cone", "ax.text", "ax.set_ylabel"}

render(c) ==
    /\ call[c].pc \in RenderPcs
    /\ call' = [call EXCEPT ![c] =
            IF AfterRender(call[c].pc) = "done"
            THEN Finished(c, "returned", [score |-> call[c].score, trace |-> call[c].trace])
            ELSE [call[c] EXCEPT !.pc = AfterRender(call[c].pc)]]
    /\ UNCHANGED <<cached_model, shared_vars, created, nCalls, coneVars>>

\* A rendering call raises; nothing in plot_bayes_cone catches it.
render_raises(c) ==
    /\ call[c].pc \in RenderPcs
    /\ Fail(c, "PlotError")
    /\ UNCHANGED <<cached_model, shared_vars, created, nCalls, coneVars>>

\* run_model, lines 388-405: build rets, pick the instance, or raise.
run_model(c) ==
    /\ call[c].pc = "run_model"
    /\ LET target == RunModelTarget(call[c].model)
       IN  IF target = None
           THEN Fail(c, "NotImplementedError")
           ELSE call' = [call EXCEPT ![c].pc = "run", ![c].inst = target,
                           ![c].inputs = RunModelInputs(call[c].model, call[c].args),
                           ![c].args = NoArgs]
    /\ UNCHANGED <<cached_model, shared_vars, created, nCalls, coneVars>>

\* run, line 51: if self.cached_model is None.
run(c) ==
    /\ call[c].pc = "run"
    /\ call' = [call EXCEPT ![c].pc = IF NeedsBuild(call[c].inst)
                                       THEN "_create_shared_vars" ELSE "set_value",
                            ![c].built = NeedsBuild(call[c].inst),
                            ![c].todo = DOMAIN call[c].inputs]
    /\ UNCHANGED <<cached_model, shared_vars, created, nCalls, coneVars>>

\* cache_model, line 38: self.shared_vars = self._create_shared_vars(**inputs).
\* A model built over the replaced variables keeps them.
create_shared_vars(c) ==
    /\ call[c].pc = "_create_shared_vars"
    /\ LET s == StoreOf(call[c].inst)
           m == cached_model[s]
       IN  /\ shared_vars' = [shared_vars EXCEPT ![s] = call[c].inputs]
           /\ cached_model' =
                IF m # NoModel /\ m.attached
                THEN [cached_model EXCEPT ![s].attached = FALSE,
                                          ![s].frozen = shared_vars[s]]
                ELSE cached_model
    /\ call' = [call EXCEPT ![c].pc = "create_model"]
    /\ UNCHANGED <<created, nCalls, coneVars>>

\* cache_model, line 39: self.cached_model = self.create_model(**self.shared_vars).
create_model(c) ==
    /\ call[c].pc = "create_model"
    /\ LET s == StoreOf(call[c].inst)
           out == CreateOutcome(call[c].inst, shared_vars[s])
       IN  /\ created' = [created EXCEPT ![s] = @ + 1]
           /\ IF out = "ok"
              THEN /\ cached_model' = [cached_model EXCEPT ![s] =
                          [id |-> created'[s], attached |-> TRUE,
                           frozen |-> EmptyDict]]
                   /\ call' = [call EXCEPT ![c].pc = "set_value"]
              ELSE /\ Fail(c, out)
                   /\ UNCHANGED cached_model
    /\ UNCHANGED <<shared_vars, nCalls, coneVars>>

\* run, lines 54-55: one turn of the loop over inputs.items() (a dict's
\* order is arbitrary); a name with no shared variable raises KeyError.
set_value(c) ==
    /\ call[c].pc = "set_value"
    /\ call[c].todo # {}
    /\ \E name \in call[c].todo :
          LET s == StoreOf(call[c].inst) IN
          IF name \in DOMAIN shared_vars[s]
          THEN /\ shared_vars' = [shared_vars EXCEPT ![s] =
                                    SetValue(@, name, call[c].inputs[name])]
               /\ call' = [call EXCEPT ![c].todo = @ \ {name}]
          ELSE /\ Fail(c, "KeyError")
               /\ UNCHANGED shared_vars
    /\ UNCHANGED <<cached_model, created, nCalls, coneVars>>

\* run, line 57: the loop is over, _inference is entered.
enter_inference(c) ==
    /\ call[c].pc = "set_value"
    /\ call[c].todo = {}
    /\ call' = [call EXCEPT ![c].pc = "_inference"]
    /\ UNCHANGED <<cached_model, shared_vars, created, nCalls, coneVars>>

\* What a call that returned its trace goes on to do.
AfterRun(c) == IF call[c].entry = "plot_bayes_cone" THEN "score" ELSE "done"

\* _inference, lines 60-66: find_MAP, NUTS, pm.sample(self.samples, ...) on
\* the cached model; run and run_model return the trace (lines 58, 407).
inference(c) ==
    /\ call[c].pc = "_inference"
    /\ LET t == [draws |-> samples, model |-> cached_model[StoreOf(call[c].inst)].id]
       IN  call' = [call EXCEPT ![c] =
                IF AfterRun(c) = "done"
                THEN [Finished(c, "returned", [score |-> None, trace |-> t])
                        EXCEPT !.trace = t]
                ELSE [call[c] EXCEPT !.pc = AfterRun(c), !.trace = t]]
    /\ UNCHANGED <<cached_model, shared_vars, created, nCalls, coneVars>>

\* _inference fails: the optimizer or the sampler raises on degenerate data.
inference_raises(c) ==
    /\ call[c].pc = "_inference"
    /\ Fail(c, "InferenceError")
    /\ UNCHANGED <<cached_model, shared_vars, created, nCalls, coneVars>>

(***************************************************************************)
(* Cone analytics.  A simple return is a number of halves (r stands for    *)
(* r/2), so 1 + r is (2 + r)/2 and the cumulative product after t steps is *)
(* an integer over 2^t: within one column every value has the same         *)
(* denominator, and the numerators are compared.                           *)
(***************************************************************************)
Returns == {-1, 1}
StartingValues == {-1, 1, 2}
Percentiles == {5, 25, 75, 95}

NoPerc == [p \in Percentiles |-> <<>>]
NoScore == [num |-> 0, den |-> 0]

\* np.cumprod(row + 1): numerators of the cumulative product of 1 + r.
RECURSIVE CumProd(_)
CumProd(row) ==
    IF row = <<>> THEN <<>>
    ELSE LET front == CumProd(SubSeq(row, 1, Len(row) - 1))
             last == IF front = <<>> THEN 1 ELSE front[Len(front)]
         IN  Append(front, last * (2 + row[Len(row)]))

\* cum_preds = np.cumprod(preds + 1, 1) * starting_value
CumPreds(m, sv) == [i \in 1..Len(m) |-> [t \in 1..Len(m[i]) |-> CumProd(m[i])[t] * sv]]

\* cum_preds.T[t], cum_preds[:, t]: one column, across the paths.
Column(cum, t) == [i \in 1..Len(cum) |-> cum[i][t]]

\* np.sort, which scoreatpercentile applies to its data first.
RECURSIVE Insert(_, _)
Insert(x, sorted) ==
    IF sorted = <<>> THEN <<x>>
    ELSE IF x <= Head(sorted) THEN <<x>> \o sorted
    ELSE <<Head(sorted)>> \o Insert(x, Tail(sorted))

RECURSIVE Sort(_)
Sort(seq) == IF seq = <<>> THEN <<>> ELSE Insert(Head(seq), Sort(Tail(seq)))

\* Variant: the data is taken in the order given.
UnsortedColumn(col) == col

SortedColumn(col) == Sort(col)

\* stats.scoreatpercentile(c, p), times 100: idx = p/100 * (n - 1); the
\* order statistic at idx, or between two of them a linear interpolation
\* weighted by idx's fraction.
ScoreAtPercentile(col, p) ==
    LET sorted == SortedColumn(col)
        idx == p * (Len(col) - 1)
        i == idx \div 100
        f == idx % 100
    IN  IF f = 0 THEN 100 * sorted[i + 1]
        ELSE (100 - f) * sorted[i + 1] + f * sorted[i + 2]

\* compute_bayes_cone, lines 288-295.
BayesCone(m, sv) ==
    LET cum == CumPreds(m, sv)
    IN  [p \in Percentiles |->
            [t \in 1..Len(m[1]) |-> ScoreAtPercentile(Column(cum, t), p)]]

\* cum_returns(returns_test, starting_value=1.), of pyfolio.timeseries: the
\* cumulative product of 1 + r.
cum_returns(rets, sv) == [t \in 1..Len(rets) |-> CumProd(rets)[t] * sv]

\* How many of the values are <= x.
RECURSIVE CountLeq(_, _)
CountLeq(col, x) ==
    IF col = <<>> THEN 0
    ELSE (IF Head(col) <= x THEN 1 ELSE 0) + CountLeq(Tail(col), x)

RECURSIVE SumSeq(_)
SumSeq(seq) == IF seq = <<>> THEN 0 ELSE Head(seq) + SumSeq(Tail(seq))

Abs(x) == IF x < 0 THEN -x ELSE x

\* Variant: the distance from 50 is divided by .25.
NormalizeQuarter(counts, S) ==
    LET den == S * Len(counts)
    IN  [num |-> 100 * den - 4 * Abs(50 * den - 100 * SumSeq(counts)), den |-> den]

\* line 324: 100 - np.abs(50 - np.mean(q)) / .5, where every q is 100 *
\* count / S and the mean is over the n steps: as a fraction over S * n.
Normalize(counts, S) ==
    LET den == S * Len(counts)
    IN  [num |-> 100 * den - 2 * Abs(50 * den - 100 * SumSeq(counts)), den |-> den]

\* compute_consistency_score, lines 315-324; percentileofscore(kind='weak')
\* is 100 * (number of values <= score) / n.
ConsistencyScore(rets, m) ==
    LET returns_test_cum == cum_returns(rets, 1)
        cum == CumPreds(m, 1)
        counts == [i \in 1..Len(returns_test_cum) |->
                      CountLeq(Column(cum, i), returns_test_cum[i])]
    IN  Normalize(counts, Len(m))

Matrices ==
    UNION { [1..S -> [1..T -> Returns]] : S \in 1..MaxPaths, T \in 1..MaxSteps }

compute_bayes_cone ==
    /\ preds # <<>>
    /\ perc = NoPerc
    /\ perc' = BayesCone(preds, starting_value)
    /\ UNCHANGED <<lifecycleVars, preds, starting_value, returns_test, score>>

compute_consistency_score ==
    /\ preds # <<>>
    /\ score = NoScore
    /\ score' = ConsistencyScore(returns_test, preds)
    /\ UNCHANGED <<lifecycleVars, preds, starting_value, returns_test, perc>>

Init ==
    /\ cached_model = [i \in Instances |-> NoModel]
    /\ shared_vars = [i \in Instances |-> EmptyDict]
    /\ created = [i \in Instances |-> 0]
    /\ call = [c \in Threads |-> Idle]
    /\ nCalls = 0
    /\ preds = <<>>
    /\ starting_value = 1
    /\ returns_test = <<>>
    /\ perc = NoPerc
    /\ score = NoScore

Step(c) ==
    \/ run_model(c)
    \/ run(c)
    \/ create_shared_vars(c)
    \/ create_model(c)
    \/ set_value(c)
    \/ enter_inference(c)
    \/ inference(c)
    \/ inference_raises(c)

PlotStep(c) ==
    \/ plot_bayes_cone(c)
    \/ consistency_score(c)
    \/ consistency_score_raises(c)
    \/ render(c)
    \/ render_raises(c)

Invoke(c) ==
    \/ CallRun(c)
    \/ CallRunModel(c)
    \/ CallPlotBayesCone(c)

\* One caller: a call starts when the previous one has returned or raised.
Next ==
    \/ Step(1)
    \/ PlotStep(1)
    \/ (call[1].pc \in {"idle", "done"} /\ nCalls < MaxCalls /\ Invoke(1))

Spec == Init /\ [][Next]_vars

\* The cone analytics on every simulated matrix, starting value and realized
\* series (no longer than the matrix is wide) within the bounds.
ConeInit ==
    /\ cached_model = [i \in Instances |-> NoModel]
    /\ shared_vars = [i \in Instances |-> EmptyDict]
    /\ created = [i \in Instances |-> 0]
    /\ call = [c \in Threads |-> Idle]
    /\ nCalls = 0
    /\ preds \in Matrices
    /\ starting_value \in StartingValues
    /\ returns_test \in UNION { [1..n -> Returns] : n \in 1..Len(preds[1]) }
    /\ perc = NoPerc
    /\ score = NoScore

ConeNext == compute_bayes_cone \/ compute_consistency_score

ConeSpec == ConeInit /\ [][ConeNext]_vars

\* Two callers, one call each, on threads that interleave between the
\* lines of run.
ConcStart(c) ==
    /\ call[c].pc = "idle"
    /\ (CallRun(c) \/ CallRunModel(c))

ConcNext == \E c \in Threads : Step(c) \/ ConcStart(c)

ConcSpec == Init /\ [][ConcNext]_vars

(***************************************************************************)
(* Properties.                                                             *)
(***************************************************************************)
KnownModels == {"alpha_beta", "t", "normal", "best"}

\* The arrays a call's inputs name are the ones held by `held`.
Holds(held, inputs) ==
    \A n \in DOMAIN inputs : n \in DOMAIN held /\ held[n] = inputs[n]

\* C1: once an instance has a cached model, no step replaces that model or
\* enters create_model on the instance again, whatever the later calls pass:
\* the model is built by the first run that builds successfully and by no
\* other.
C1_BuiltOnce ==
    [][\A i \in Instances :
          cached_model[i] # NoModel =>
             /\ cached_model'[i] = cached_model[i]
             /\ created'[i] = created[i]]_vars

\* A later run, with other inputs than the model was built over, is about to
\* rebind and has not built.
C1_Reused ==
    \E i \in Instances :
       /\ call[1].pc = "set_value" /\ call[1].inst = i /\ ~call[1].built
       /\ cached_model[i] # NoModel /\ created[i] = 1
       /\ call[1].inputs # EmptyDict
       /\ ~Holds(shared_vars[i], call[1].inputs)

\* C2: when a call enters _inference its loop over the inputs is over, and
\* every shared variable its inputs name holds the array the call supplied.
C2_BoundAtInference ==
    \A c \in Threads :
       call[c].pc = "_inference" =>
          /\ call[c].todo = {}
          /\ Holds(shared_vars[StoreOf(call[c].inst)], call[c].inputs)

\* A run on an already built BEST model enters inference with two different
\* arrays rebound.
C2_ReboundTwo ==
    /\ call[1].pc = "_inference" /\ ~call[1].built
    /\ DOMAIN call[1].inputs = {"y1", "y2"}
    /\ call[1].inputs["y1"] # call[1].inputs["y2"]

\* C3: a trace that run_model drew for a call asking for n samples holds n
\* draws.
C3_SamplesOverride ==
    \A c \in Threads :
       (/\ call[c].pc = "done" /\ call[c].outcome = "returned"
        /\ call[c].entry \in {"run_model", "plot_bayes_cone"} /\ ~call[c].given)
       => call[c].result.trace.draws = call[c].samples

\* C4: a plot_bayes_cone call whose rendering raised after the score and the
\* trace were computed still hands the caller that score and trace.
C4_PlotFailureKeepsResult ==
    \A c \in Threads :
       (call[c].pc = "done" /\ call[c].outcome = "PlotError")
       => call[c].result = [score |-> call[c].score, trace |-> call[c].trace]

\* C5: inference is never entered by a run that omitted an input its model
\* builder requires.
C5_MissingInputNoInference ==
    \A c \in Threads :
       call[c].pc = "_inference" => Keywords(call[c].inst) \subseteq DOMAIN call[c].inputs

\* C6: the step run_model takes on a model name outside alpha_beta, t,
\* normal and best ends the call with NotImplementedError, with no trace, and
\* changes no instance's cached model, shared variables or build count.
C6_UnknownModelRaises ==
    [][\A c \in Threads :
          (call[c].pc = "run_model" /\ call[c].model \notin KnownModels) =>
             /\ call'[c].pc = "done"
             /\ call'[c].outcome = "NotImplementedError"
             /\ call'[c].result = NoResult
             /\ call'[c].inst = None
             /\ UNCHANGED <<cached_model, shared_vars, created>>]_vars

\* run_model has raised on an unknown name while some instance holds a model.
C6_RaisedWithModelCached ==
    /\ call[1].pc = "done" /\ call[1].entry = "run_model"
    /\ call[1].outcome = "NotImplementedError"
    /\ \E i \in Instances : cached_model[i] # NoModel

SeqMin(seq) == CHOOSE x \in {seq[i] : i \in DOMAIN seq} : \A i \in DOMAIN seq : x <= seq[i]
SeqMax(seq) == CHOOSE x \in {seq[i] : i \in DOMAIN seq} : \A i \in DOMAIN seq : x >= seq[i]

C8_ScoreInRange ==
    score # NoScore =>
       /\ score.den > 0
       /\ 0 <= score.num
       /\ score.num <= 100 * score.den

\* A score strictly inside (0, 100) for a realized series shorter than the
\* simulated paths.
C8_ScoreComputed ==
    /\ score # NoScore
    /\ Len(returns_test) < Len(preds[1])
    /\ 0 < score.num /\ score.num < 100 * score.den

\* The realized cumulative value is the median of the simulated cumulative
\* values at every step (the mean of the two middle ones for an even S).
OnMedian ==
    \A t \in 1..Len(returns_test) :
       LET sorted == Sort(Column(CumPreds(preds, 1), t))
           n == Len(sorted)
       IN  2 * cum_returns(returns_test, 1)[t] = sorted[(n + 1) \div 2] + sorted[n \div 2 + 1]

\* C9: a realized path on the per-step median of the simulated paths scores
\* exactly 100.
C9_MedianScores100 ==
    (score # NoScore /\ OnMedian) => score.num = 100 * score.den

\* C10: a call whose inference reads an array it did not supply, or runs on
\* an instance whose model was built more than once, shares its instance
\* with the other caller's call: calls on different instances see their own
\* inputs and build once.
C10_RaceNeedsSharedInstance ==
    \A c \in Threads :
       (/\ call[c].pc = "_inference"
        /\ \/ ~Holds(ModelData(call[c].inst), call[c].inputs)
           \/ created[StoreOf(call[c].inst)] > 1)
       => \E d \in Threads \ {c} : call[d].inst = call[c].inst

\* Two run_model calls for the same model name, both at inference: the
\* model was built twice and one call's inference reads the other's data.
C10_Race ==
    \E c \in Threads : \E d \in Threads \ {c} :
       /\ call[c].pc = "_inference" /\ call[d].pc = "_inference"
       /\ call[c].entry = "run_model" /\ call[d].entry = "run_model"
       /\ call[c].model = call[d].model
       /\ call[c].inst = call[d].inst
       /\ created[call[c].inst] = 2
       /\ ~Holds(ModelData(call[c].inst), call[c].inputs)
       /\ Holds(ModelData(call[c].inst), call[d].inputs)

====
